---- MODULE Spec2Model ----
(***************************************************************************)
(* Model of the hybrid relevance-ranking pipeline of                       *)
(* src/backend/search_handler.py (search_articles and the scorers it       *)
(* calls).                                                                 *)
(*                                                                         *)
(* Text is a sequence of one-character strings, so that lower-casing,      *)
(* whitespace splitting and the substring test `x in y` are computed the   *)
(* way Python computes them.  Scores are exact numbers in hundredths       *)
(* (Scale = 100): a keyword score of 10.0 is 1000, a semantic score of     *)
(* 70.0 is 7000.  An embedding vector is represented by the cosine (in     *)
(* hundredths) it makes with the query vector.                             *)
(***************************************************************************)
EXTENDS Integers, Sequences, FiniteSets, TLC

\* ------------------------------------------------------------------ bounds
MaxPop == 3

\* longest result list handed to the relevance filter on its own
MaxList == 3

\* size of the largest generated population
MaxBig == 52

\* --------------------------------------------------------------- constants
SEARCH_SIMPLE_QUERY_THRESHOLD == 3
SEARCH_MAX_RESULTS == 100
SEARCH_SEMANTIC_THRESHOLD == 70
SEARCH_RELEVANCE_DISPLAY_THRESHOLD == 75
DefaultMaxResults == 6
DefaultMaxArticles == 100
SemanticOnlyMaxArticles == 50
NarrowKeywordTop == 30
NarrowRecent == 20
NarrowFallback == 40
Scale == 100
SemanticWeight == 7
KeywordWeight == 3
WeightDenominator == 10
PhraseTitleScore == 2500
PhraseSummaryScore == 1500
KeywordTitleScore == 1000
KeywordSummaryScore == 500
KeywordSourceScore == 200
KeywordCategoryScore == 800

\* Python's None, as a dictionary key or a missing value.
None == "<None>"

\* -------------------------------------------------------------------- text
UpperChars ==
  <<"A","B","C","D","E","F","G","H","I","J","K","L","M",
    "N","O","P","Q","R","S","T","U","V","W","X","Y","Z">>

LowerChars ==
  <<"a","b","c","d","e","f","g","h","i","j","k","l","m",
    "n","o","p","q","r","s","t","u","v","w","x","y","z">>

\* the upper-case letters with their lower-case forms
UpperToLower ==
  [c \in {UpperChars[i] : i \in 1..26} |->
     LowerChars[CHOOSE i \in 1..26 : UpperChars[i] = c]]

\* str.lower() on one character
LowerChar(c) == IF c \in DOMAIN UpperToLower THEN UpperToLower[c] ELSE c

\* str.lower()
lower(s) == [i \in 1..Len(s) |-> LowerChar(s[i])]

IsSpace(c) == c = " "

\* the Python test `needle in hay` on strings
StrIn(needle, hay) ==
  \E i \in 0..(Len(hay) - Len(needle)) :
    \A j \in 1..Len(needle) : hay[i + j] = needle[j]

RECURSIVE SplitFrom(_, _, _)
\* str.split() with no argument: maximal runs of non-whitespace characters
SplitFrom(s, i, word) ==
  IF i > Len(s)
  THEN IF word = <<>> THEN <<>> ELSE <<word>>
  ELSE IF IsSpace(s[i])
       THEN (IF word = <<>> THEN <<>> ELSE <<word>>) \o SplitFrom(s, i + 1, <<>>)
       ELSE SplitFrom(s, i + 1, Append(word, s[i]))

split(s) == SplitFrom(s, 1, <<>>)

\* ----------------------------------------------------------- dictionaries
\* dict.get(key, default) on an article record
Get(a, k, default) == IF k \in DOMAIN a THEN a[k] ELSE default

\* d[key] = value on a copy of the record
Put(a, k, v) == (k :> v) @@ a

\* list[:n]
Take(s, n) == SubSeq(s, 1, IF n < Len(s) THEN n ELSE Len(s))

\* ------------------------------------------------------------- aliasing
\* A Python list holds references. A record of a working list that is one
\* of the caller's own dicts (not a copy of it) carries under this key the
\* position of that dict in the caller's list.
CallerRef == "__caller"

\* the caller's list as search_articles receives it: its dicts themselves
Refs(arts) == [i \in 1..Len(arts) |-> Put(arts[i], CallerRef, i)]

\* the fields a dict holds
Plain(a) == [k \in DOMAIN a \ {CallerRef} |-> a[k]]

\* no copy taken: the same dict under another name
Copy_alias(a) == a

\* dict.copy(): a new dict with the same fields
Copy(a) == Plain(a)

\* the caller's list after the function wrote the records of `produced`:
\* a record that is still one of the caller's dicts shows what that dict
\* holds now (the last record written to it)
WriteBack(arts, produced) ==
  [i \in 1..Len(arts) |->
     LET hits == {j \in 1..Len(produced) : Get(produced[j], CallerRef, 0) = i}
     IN IF hits = {} THEN arts[i]
        ELSE Plain(produced[CHOOSE j \in hits : \A k \in hits : k <= j])]

\* ------------------------------------------------------------ sorting
RECURSIVE InsertDesc_before(_, _)
\* the insertion placing x before the elements of equal score
InsertDesc_before(x, sorted) ==
  IF sorted = <<>>
  THEN <<x>>
  ELSE IF Head(sorted)["relevance_score"] > x["relevance_score"]
       THEN <<Head(sorted)>> \o InsertDesc_before(x, Tail(sorted))
       ELSE <<x>> \o sorted

RECURSIVE InsertDesc(_, _)
\* position of x in a list sorted by descending relevance_score, after
\* every element whose score is not smaller (list.sort is stable)
InsertDesc(x, sorted) ==
  IF sorted = <<>>
  THEN <<x>>
  ELSE IF Head(sorted)["relevance_score"] >= x["relevance_score"]
       THEN <<Head(sorted)>> \o InsertDesc(x, Tail(sorted))
       ELSE <<x>> \o sorted

\* the sort left out: the list as it was built
SortDesc_none(s) == s

RECURSIVE SortDesc(_)
\* list.sort(key=lambda x: x["relevance_score"], reverse=True)
SortDesc(s) ==
  IF s = <<>> THEN <<>>
  ELSE InsertDesc(s[Len(s)], SortDesc(SubSeq(s, 1, Len(s) - 1)))

\* ------------------------------------------------------ keyword scorer
RECURSIVE KeywordSum_once(_, _, _, _, _)
\* the keyword loop over set(keywords): a repeated token counted once
KeywordSum_once(keywords, title, summary, source, category) ==
  IF keywords = <<>> THEN 0
  ELSE LET keyword == Head(keywords)
           again == \E i \in 1..Len(Tail(keywords)) : Tail(keywords)[i] = keyword
       IN (IF again THEN 0
           ELSE (IF StrIn(keyword, title) THEN KeywordTitleScore ELSE 0)
              + (IF StrIn(keyword, summary) THEN KeywordSummaryScore ELSE 0)
              + (IF StrIn(keyword, source) THEN KeywordSourceScore ELSE 0)
              + (IF StrIn(keyword, category) THEN KeywordCategoryScore ELSE 0))
          + KeywordSum_once(Tail(keywords), title, summary, source, category)

RECURSIVE KeywordSum(_, _, _, _, _)
\* the `for keyword in keywords` loop of simple_keyword_search
KeywordSum(keywords, title, summary, source, category) ==
  IF keywords = <<>> THEN 0
  ELSE LET keyword == Head(keywords) IN
         (IF StrIn(keyword, title) THEN KeywordTitleScore ELSE 0)
       + (IF StrIn(keyword, summary) THEN KeywordSummaryScore ELSE 0)
       + (IF StrIn(keyword, source) THEN KeywordSourceScore ELSE 0)
       + (IF StrIn(keyword, category) THEN KeywordCategoryScore ELSE 0)
       + KeywordSum(Tail(keywords), title, summary, source, category)

\* the exact-phrase bonus given only when the field equals the phrase
PhraseScore_equal(phrase, title, summary) ==
  IF phrase = title THEN PhraseTitleScore
  ELSE IF phrase = summary THEN PhraseSummaryScore
  ELSE 0

\* the exact-phrase bonus: title first, else summary
PhraseScore(phrase, title, summary) ==
  IF StrIn(phrase, title) THEN PhraseTitleScore
  ELSE IF StrIn(phrase, summary) THEN PhraseSummaryScore
  ELSE 0

\* the score simple_keyword_search computes for one article, from the
\* lower-cased phrase and its keywords
ArticleScore(phrase, keywords, article) ==
  LET title == lower(Get(article, "title", <<>>))
      summary == lower(Get(article, "summary", <<>>))
      source == lower(Get(article, "source", <<>>))
      category == lower(Get(article, "category", <<>>))
  IN PhraseScore(phrase, title, summary)
     + KeywordSum(keywords, title, summary, source, category)

\* the keyword score of one article for a query
KeywordScore(q, article) == ArticleScore(lower(q), split(lower(q)), article)

\* the keyword scorer keeping every article
KeywordKeeps_all(score) == score >= 0

\* `if score > 0:` -- whether the article enters the keyword results
KeywordKeeps(score) == score > 0

RECURSIVE KeywordMatches(_, _, _)
\* the results list of simple_keyword_search before sorting
KeywordMatches(phrase, keywords, arts) ==
  IF arts = <<>> THEN <<>>
  ELSE LET article == Head(arts)
           score == ArticleScore(phrase, keywords, article)
       IN (IF KeywordKeeps(score)
           THEN <<Put(Put(Copy(article), "relevance_score", score),
                      "search_method", "keyword")>>
           ELSE <<>>)
          \o KeywordMatches(phrase, keywords, Tail(arts))

simple_keyword_search(q, arts) ==
  LET query_lower == lower(q)
      keywords == split(query_lower)
      phrase == query_lower
  IN SortDesc(KeywordMatches(phrase, keywords, arts))

\* ----------------------------------------------------- semantic scorer
NoneValue == [kind |-> "None"]

\* get_embedding without its try/except: the provider's error escapes
get_embedding_uncaught(has_client, outcome) ==
  IF ~has_client THEN [raised |-> FALSE, value |-> NoneValue]
  ELSE IF outcome.kind = "error"
       THEN [raised |-> TRUE, value |-> NoneValue]
       ELSE [raised |-> FALSE, value |-> outcome]

\* get_embedding: the provider call sits in a try/except that returns None.
\* outcome is what the provider does: [kind |-> "error"] or a vector.
get_embedding(has_client, outcome) ==
  IF ~has_client THEN [raised |-> FALSE, value |-> NoneValue]
  ELSE IF outcome.kind = "error"
       THEN [raised |-> FALSE, value |-> NoneValue]
       ELSE [raised |-> FALSE, value |-> outcome]

RECURSIVE Dot(_, _)
\* np.dot on two vectors of the same length
Dot(vec1, vec2) ==
  IF vec1 = <<>> THEN 0
  ELSE Head(vec1) * Head(vec2) + Dot(Tail(vec1), Tail(vec2))

\* np.linalg.norm; the provider's vectors have a whole-number norm
Norm(vec) == CHOOSE n \in 0..Dot(vec, vec) : n * n = Dot(vec, vec)

\* cosine_similarity: the cosine remapped to 0..1 by (similarity + 1) / 2,
\* in ten-thousandths; 0.0 for a zero vector and when np.dot raises
cosine_similarity(vec1, vec2) ==
  IF Len(vec1) # Len(vec2) THEN 0
  ELSE LET dot_product == Dot(vec1, vec2)
           norm1 == Norm(vec1)
           norm2 == Norm(vec2)
       IN IF norm1 = 0 \/ norm2 = 0 THEN 0
          ELSE ((dot_product * Scale * Scale) \div (norm1 * norm2)
                 + Scale * Scale) \div 2

\* the threshold test with a strict comparison
SemanticKeeps_strict(similarity) == similarity > SEARCH_SEMANTIC_THRESHOLD * Scale

\* `if similarity >= SEARCH_SEMANTIC_THRESHOLD:`
SemanticKeeps(similarity) == similarity >= SEARCH_SEMANTIC_THRESHOLD * Scale

\* the loop giving up what it scored when an embedding fails
SemanticStep_reset(scored, article, query_embedding, article_embedding) ==
  IF article_embedding.kind = "None" THEN <<>>
  ELSE LET similarity == cosine_similarity(query_embedding.vec, article_embedding.vec)
       IN IF SemanticKeeps(similarity)
          THEN Append(scored,
                 Put(Put(Copy(article), "relevance_score", similarity),
                     "search_method", "semantic"))
          ELSE scored

\* one iteration of the loop of semantic_search
SemanticStep(scored, article, query_embedding, article_embedding) ==
  IF article_embedding.kind = "None" THEN scored
  ELSE LET similarity == cosine_similarity(query_embedding.vec, article_embedding.vec)
       IN IF SemanticKeeps(similarity)
          THEN Append(scored,
                 Put(Put(Copy(article), "relevance_score", similarity),
                     "search_method", "semantic"))
          ELSE scored

\* --------------------------------------------------- candidate narrower
\* the key the narrowing dictionary uses: a.get('link')
NarrowKey(a) == Get(a, "link", None)

RECURSIVE DictValuesFrom(_, _)
\* list({a.get('link'): a for a in s}.values()): one entry per key, at the
\* position of the key's first occurrence, holding its last occurrence
DictValuesFrom(s, i) ==
  IF i > Len(s) THEN <<>>
  ELSE LET key == NarrowKey(s[i])
           first == \A j \in 1..(i - 1) : NarrowKey(s[j]) # key
           last == CHOOSE j \in i..Len(s) :
                     /\ NarrowKey(s[j]) = key
                     /\ \A k \in (j + 1)..Len(s) : NarrowKey(s[k]) # key
       IN (IF first THEN <<s[last]>> ELSE <<>>) \o DictValuesFrom(s, i + 1)

\* the narrowing without the [:30] on the keyword matches
Narrow_untruncated(keyword_results, arts) ==
  IF keyword_results # <<>>
  THEN DictValuesFrom(keyword_results \o Take(arts, NarrowRecent), 1)
  ELSE Take(arts, NarrowFallback)

\* the articles_to_search of the hybrid branch of search_articles
Narrow(keyword_results, arts) ==
  IF keyword_results # <<>>
  THEN DictValuesFrom(Take(keyword_results, NarrowKeywordTop)
                        \o Take(arts, NarrowRecent), 1)
  ELSE Take(arts, NarrowFallback)

\* ------------------------------------------------------- score combiner
\* the key hybrid_search uses: a.get("link", "")
LinkOf(a) == Get(a, "link", "")

\* keys of {a.get("link", ""): ... for a in s}
Links(s) == {LinkOf(s[i]) : i \in 1..Len(s)}

\* {a.get("link", ""): a for a in s}[link]: the last entry with that link
Lookup(s, link) ==
  s[CHOOSE i \in 1..Len(s) :
      /\ LinkOf(s[i]) = link
      /\ \A j \in (i + 1)..Len(s) : LinkOf(s[j]) # link]

\* scores.get(link, 0)
ScoreGet(s, link) ==
  IF link \in Links(s) THEN Lookup(s, link)["relevance_score"] ELSE 0

\* the two scores added without their weights
CombinedScore_unweighted(semantic, keyword) == semantic + keyword

\* the weighting with the two weights exchanged
CombinedScore_swapped(semantic, keyword) ==
  (semantic * KeywordWeight + keyword * SemanticWeight) \div WeightDenominator

\* semantic_score + keyword_score after weighting
CombinedScore(semantic, keyword) ==
  (semantic * SemanticWeight + keyword * KeywordWeight) \div WeightDenominator

\* the loop without its `if not link: continue`
SkipsLink_never(link) == FALSE

\* `if not link: continue`
SkipsLink(link) == link = ""

\* the merge as an intersection: only links scored by both methods
CombineLink_intersection(link, semantic_results, keyword_results, arts) ==
  IF SkipsLink(link) THEN <<>>
  ELSE IF link \notin Links(semantic_results) \cap Links(keyword_results)
  THEN <<>>
  ELSE <<Put(Put(Put(Put(Copy(Lookup(arts, link)),
           "relevance_score", CombinedScore(ScoreGet(semantic_results, link),
                                            ScoreGet(keyword_results, link))),
           "search_method", "hybrid"),
           "semantic_score", ScoreGet(semantic_results, link)),
           "keyword_score", ScoreGet(keyword_results, link))>>

\* the body of the `for link in all_links` loop: the entry for one link,
\* or nothing
CombineLink(link, semantic_results, keyword_results, arts) ==
  IF SkipsLink(link) THEN <<>>
  ELSE LET combined_score == CombinedScore(ScoreGet(semantic_results, link),
                                           ScoreGet(keyword_results, link))
       IN IF combined_score > 0
          THEN LET article == IF link \in Links(arts) THEN Lookup(arts, link)
                              ELSE <<>>
               IN <<Put(Put(Put(Put(Copy(article),
                      "relevance_score", combined_score),
                      "search_method", "hybrid"),
                      "semantic_score", ScoreGet(semantic_results, link)),
                      "keyword_score", ScoreGet(keyword_results, link))>>
          ELSE <<>>

RECURSIVE CombineAll(_, _, _, _)
\* combined_results.values(), in the iteration order of the set all_links
CombineAll(order, semantic_results, keyword_results, arts) ==
  IF order = <<>> THEN <<>>
  ELSE CombineLink(Head(order), semantic_results, keyword_results, arts)
       \o CombineAll(Tail(order), semantic_results, keyword_results, arts)

\* the iteration orders a Python set of these links can have
IterationOrders(S) ==
  {f \in [1..Cardinality(S) -> S] : \A i, j \in DOMAIN f : f[i] = f[j] => i = j}

\* the merge making one entry per scored entry instead of one per link
hybrid_merge_perentry(order, semantic_results, keyword_results, arts) ==
  SortDesc(CombineAll([i \in 1..Len(semantic_results \o keyword_results) |->
                         LinkOf((semantic_results \o keyword_results)[i])],
                      semantic_results, keyword_results, arts))

\* hybrid_search after both scorers have run
hybrid_merge(order, semantic_results, keyword_results, arts) ==
  SortDesc(CombineAll(order, semantic_results, keyword_results, arts))

\* ----------------------------------------------------- relevance filter
\* Python's round() of n / d for d > 0: to nearest, ties to even
Round(n, d) ==
  LET q == n \div d
      r == n % d
  IN IF 2 * r < d THEN q
     ELSE IF 2 * r > d THEN q + 1
     ELSE IF q % 2 = 0 THEN q ELSE q + 1

RECURSIVE MaxScore_total(_)
\* the batch total in place of the batch maximum
MaxScore_total(results) ==
  IF Len(results) = 1 THEN Get(results[1], "relevance_score", 0)
  ELSE Get(results[1], "relevance_score", 0) + MaxScore_total(Tail(results))

RECURSIVE MaxScore(_)
\* max(a.get("relevance_score", 0) for a in results), results not empty
MaxScore(results) ==
  IF Len(results) = 1 THEN Get(results[1], "relevance_score", 0)
  ELSE LET m == MaxScore(Tail(results))
           h == Get(results[1], "relevance_score", 0)
       IN IF h >= m THEN h ELSE m

RECURSIVE FilterAbsolute(_, _)
\* the semantic/hybrid loop: absolute score against the threshold
FilterAbsolute(results, threshold_percent) ==
  IF results = <<>> THEN <<>>
  ELSE LET article == Head(results)
           score == Get(article, "relevance_score", 0)
       IN (IF score >= threshold_percent * Scale
           THEN <<Put(article, "relevance_percentage", Round(score, Scale))>>
           ELSE <<>>)
          \o FilterAbsolute(Tail(results), threshold_percent)

RECURSIVE FilterRelative_absolute(_, _, _)
\* the keyword loop testing the score itself against the threshold
FilterRelative_absolute(results, max_score, threshold_percent) ==
  IF results = <<>> THEN <<>>
  ELSE LET article == Head(results)
           score == Get(article, "relevance_score", 0)
       IN (IF score >= threshold_percent * Scale
           THEN <<Put(article, "relevance_percentage",
                      Round(score * 100, max_score))>>
           ELSE <<>>)
          \o FilterRelative_absolute(Tail(results), max_score, threshold_percent)

RECURSIVE FilterRelative(_, _, _)
\* the keyword loop: percentage of the batch maximum against the threshold
FilterRelative(results, max_score, threshold_percent) ==
  IF results = <<>> THEN <<>>
  ELSE LET article == Head(results)
           score == Get(article, "relevance_score", 0)
       IN (IF score * 100 >= threshold_percent * max_score
           THEN <<Put(article, "relevance_percentage",
                      Round(score * 100, max_score))>>
           ELSE <<>>)
          \o FilterRelative(Tail(results), max_score, threshold_percent)

\* the filter putting what it returns in descending relevance_score
filter_by_relevance_threshold_resorted(results, threshold_percent, max_results) ==
  IF results = <<>> THEN <<>>
  ELSE LET search_method == Get(results[1], "search_method", "keyword")
       IN IF search_method \in {"semantic", "hybrid"}
          THEN SortDesc(Take(FilterAbsolute(results, threshold_percent),
                             max_results))
          ELSE IF MaxScore(results) = 0 THEN <<>>
          ELSE SortDesc(Take(FilterRelative(results, MaxScore(results),
                                            threshold_percent), max_results))

\* the filter taking every list as a keyword list: percentages of the
\* batch maximum whatever the search method
filter_by_relevance_threshold_relative(results, threshold_percent, max_results) ==
  IF results = <<>> THEN <<>>
  ELSE IF MaxScore(results) = 0 THEN <<>>
  ELSE Take(FilterRelative(results, MaxScore(results), threshold_percent),
            max_results)

\* filter_by_relevance_threshold: the method of the first entry decides
\* between the absolute and the relative test; then filtered[:max_results]
filter_by_relevance_threshold(results, threshold_percent, max_results) ==
  IF results = <<>> THEN <<>>
  ELSE LET search_method == Get(results[1], "search_method", "keyword")
       IN IF search_method \in {"semantic", "hybrid"}
          THEN Take(FilterAbsolute(results, threshold_percent), max_results)
          ELSE IF MaxScore(results) = 0 THEN <<>>
          ELSE Take(FilterRelative(results, MaxScore(results),
                                   threshold_percent), max_results)

\* --------------------------------------------------------------- inputs
T_GPT4 == <<"G","P","T","-","4"," ","l","a","u","n","c","h","e","s">>  \* "GPT-4 launches"
T_Claude == <<"C","l","a","u","d","e"," ","u","p","d","a","t","e">>  \* "Claude update"
T_Weather == <<"W","e","a","t","h","e","r"," ","t","o","d","a","y">>  \* "Weather today"
T_Phrase == <<"G","P","T"," ","u","p","d","a","t","e"," ","f","o","r"," ","t","o","d","a","y">>  \* "GPT update for today"
T_GPTToday == <<"G","P","T"," ","t","o","d","a","y">>  \* "GPT today"
T_UpdateForGPT == <<"u","p","d","a","t","e"," ","f","o","r"," ","G","P","T">>  \* "update for GPT"
T_UpdateForToday == <<"u","p","d","a","t","e"," ","f","o","r"," ","t","o","d","a","y">>  \* "update for today"
T_ForToday == <<"G","P","T"," ","f","o","r"," ","t","o","d","a","y">>  \* "GPT for today"
T_Update == <<"U","p","d","a","t","e">>  \* "Update"
Q_GPT == <<"G","P","T">>  \* "GPT"
Q_Blank == <<" ">>  \* " "
T_Today == <<"t","o","d","a","y">>  \* "today"
T_UpdateFor == <<"u","p","d","a","t","e"," ","f","o","r">>  \* "update for"
Q_Twice == <<"g","p","t"," ","G","P","T">>  \* "gpt GPT"
T_Markets == <<"M", "a", "r", "k", "e", "t", "s">>
Q_None == <<"z","z"," ","z","z"," ","z","z"," ","z","z">>  \* "zz zz zz zz"
Q_Launch == <<"G","P","T","-","4"," ","l","a","u","n","c","h","e","s"," ","z","z"," ","z","z">>  \* "GPT-4 launches zz zz"

\* the articles a population is drawn from; published_date is the ISO date
\* as the number YYYYMMDD, which orders as the string does
Pool ==
  << [title |-> T_GPT4, link |-> "l1", published_date |-> 20240106],
     [title |-> T_Claude, summary |-> T_UpdateForToday, source |-> T_Today,
      category |-> T_UpdateFor, link |-> "l1", published_date |-> 20240105],
     [title |-> T_Weather, summary |-> T_UpdateForToday, link |-> "",
      published_date |-> 20240104],
     [title |-> T_Phrase, summary |-> T_Phrase, source |-> T_GPTToday,
      category |-> T_UpdateForGPT, link |-> "l4",
      published_date |-> 20240103],
     [title |-> T_Update, summary |-> T_Phrase, source |-> T_GPTToday] >>

\* every list of at most MaxPop different pool articles, in any order
Populations ==
  UNION {{[i \in 1..n |-> Pool[f[i]]] :
            f \in {g \in [1..n -> 1..Len(Pool)] :
                     \A i, j \in 1..n : g[i] = g[j] => i = j}} :
         n \in 0..MaxPop}

Queries == {<<>>, Q_Blank, Q_GPT, Q_Twice, T_ForToday, T_Phrase, Q_None}

Error == [kind |-> "error"]
Vector(v) == [kind |-> "vector", vec |-> v]

\* what the provider can do when asked for the query's embedding
QueryOutcomes == {Error, Vector(<<1, 0, 0, 0>>)}

\* what the provider can do when asked for an article's embedding:
\* similarity 1.0, exactly 0.70, 0.5, or an error
ArticleOutcomes ==
  {Error, Vector(<<1, 0, 0, 0>>), Vector(<<2, 4, 2, 1>>), Vector(<<0, 1, 0, 0>>)}

\* ---------------------------------------------------------------- state
VARIABLES
  query,               \* the query string passed to search_articles
  articles,            \* the caller's candidate list
  client,              \* whether the module-level OpenAI client exists
  use_hybrid,          \* SEARCH_USE_HYBRID
  pc,                  \* "ready", "query_embedding", "article_embedding",
                       \* "done" (returned) or "raised" (exception escaped)
  search_branch,       \* the branch search_articles took
  articles_to_search,  \* the list handed to hybrid_search / semantic_search
  articles_to_process, \* articles[:max_articles] inside semantic_search
  idx,                 \* loop position inside semantic_search (1-based)
  query_embedding,     \* semantic_search's query_embedding
  scored_articles,     \* semantic_search's scored_articles
  semantic_results,    \* hybrid_search's semantic_results
  keyword_results,     \* hybrid_search's keyword_results
  hybrid_results,      \* what hybrid_search returned
  result,              \* what search_articles returned
  trace,               \* the pipeline stages entered, in order
  embed_log,           \* the provider calls made, in order: which text
                       \* (0 the query, i the i-th processed article),
                       \* whether the call failed, and what the provider
                       \* answered
  filter_call          \* a call of filter_by_relevance_threshold by itself:
                       \* its arguments, what it returned, and what it
                       \* returned when given that list again

vars == <<query, articles, client, use_hybrid, pc, search_branch,
          articles_to_search, articles_to_process, idx, query_embedding,
          scored_articles, semantic_results, keyword_results,
          hybrid_results, result, trace, embed_log, filter_call>>

\* no call of the relevance filter by itself
NoFilterCall ==
  [stage |-> "none", results |-> <<>>, threshold_percent |-> 0,
   max_results |-> 0, returned |-> <<>>, returned_again |-> <<>>]

inputs == <<query, articles, client, use_hybrid>>

settings == <<query, client, use_hybrid>>

Init ==
  /\ query \in Queries
  /\ articles \in Populations
  /\ client \in BOOLEAN
  /\ use_hybrid \in BOOLEAN
  /\ pc = "ready"
  /\ search_branch = "none"
  /\ articles_to_search = <<>>
  /\ articles_to_process = <<>>
  /\ idx = 1
  /\ query_embedding = NoneValue
  /\ scored_articles = <<>>
  /\ semantic_results = <<>>
  /\ keyword_results = <<>>
  /\ hybrid_results = <<>>
  /\ result = NoneValue
  /\ trace = <<>>
  /\ embed_log = <<>>
  /\ filter_call = NoFilterCall

\* one entry of embed_log
ProviderCall(target, outcome) ==
  [target |-> target, failed |-> outcome.kind = "error", outcome |-> outcome]

\* the dictionary search_articles returns
SearchResult(q, arts, search_type) ==
  [query |-> q, total_results |-> Len(arts), articles |-> arts,
   search_type |-> search_type]

\* the word count taken as len(query)
WordCount_chars(q) == Len(q)

\* len(query.split())
WordCount(q) == Len(split(q))

\* is_simple_query with a strict comparison
IsSimpleQuery_strict(q) == WordCount(q) < SEARCH_SIMPLE_QUERY_THRESHOLD

\* is_simple_query
IsSimpleQuery(q) == WordCount(q) <= SEARCH_SIMPLE_QUERY_THRESHOLD

\* the empty-input test requiring both to be empty
IsEmptyInput_both(q, arts) == q = <<>> /\ arts = <<>>

\* `if not query or not articles:`
IsEmptyInput(q, arts) == q = <<>> \/ arts = <<>>

\* the hybrid test ignoring SEARCH_USE_HYBRID
TakesHybrid_always == client

\* `if SEARCH_USE_HYBRID and client:`
TakesHybrid == use_hybrid /\ client

\* `elif client:`
TakesSemantic == ~TakesHybrid /\ client

\* search_articles, lines 324-330: empty query or empty population
ReturnNone ==
  /\ pc = "ready"
  /\ IsEmptyInput(query, articles)
  /\ pc' = "done"
  /\ result' = SearchResult(query, <<>>, "none")
  /\ UNCHANGED filter_call
  /\ UNCHANGED <<inputs, search_branch, articles_to_search,
                 articles_to_process, idx, query_embedding, scored_articles,
                 semantic_results, keyword_results, hybrid_results, trace,
                 embed_log>>

\* the articles of the simple-query return: results[:SEARCH_MAX_RESULTS]
SimpleResults(q, arts) ==
  Take(simple_keyword_search(q, arts), SEARCH_MAX_RESULTS)

\* the no-client return passed through the relevance filter
FallbackResults_filtered(q, arts) ==
  filter_by_relevance_threshold(simple_keyword_search(q, arts),
    SEARCH_RELEVANCE_DISPLAY_THRESHOLD, DefaultMaxResults)

\* the articles of the no-client return: results[:SEARCH_MAX_RESULTS]
FallbackResults(q, arts) ==
  Take(simple_keyword_search(q, arts), SEARCH_MAX_RESULTS)

\* search_articles, lines 339-346: simple query, keyword scorer only
KeywordBranch ==
  /\ pc = "ready"
  /\ ~IsEmptyInput(query, articles)
  /\ IsSimpleQuery(query)
  /\ pc' = "done"
  /\ search_branch' = "keyword"
  /\ trace' = <<"simple_keyword_search">>
  /\ result' = SearchResult(query, SimpleResults(query, Refs(articles)),
                             "keyword")
  /\ articles' = WriteBack(articles,
                            simple_keyword_search(query, Refs(articles)))
  /\ UNCHANGED filter_call
  /\ UNCHANGED <<settings, articles_to_search, articles_to_process, idx,
                 query_embedding, scored_articles, semantic_results,
                 keyword_results, hybrid_results, embed_log>>

\* the candidates of semantic_search without the limit
Process_all(arts, max_articles) == arts

\* `articles_to_process = articles[:max_articles]`
Process(arts, max_articles) == Take(arts, max_articles)

\* search_articles, lines 350-363: keyword pre-pass, narrowing, and the
\* entry of hybrid_search and semantic_search up to the first provider call
HybridBranch ==
  /\ pc = "ready"
  /\ ~IsEmptyInput(query, articles)
  /\ ~IsSimpleQuery(query)
  /\ TakesHybrid
  /\ \E prepass \in {simple_keyword_search(query, Refs(articles))} :
     \E narrowed \in {Narrow(prepass, Refs(articles))} :
       /\ articles_to_search' = narrowed
       /\ articles_to_process' = Process(narrowed, DefaultMaxArticles)
       /\ articles' = WriteBack(articles, prepass)
  /\ pc' = "query_embedding"
  /\ search_branch' = "hybrid"
  /\ trace' = <<"simple_keyword_search", "narrow", "hybrid_search",
                "semantic_search">>
  /\ UNCHANGED filter_call
  /\ UNCHANGED <<settings, idx, query_embedding, scored_articles,
                 semantic_results, keyword_results, hybrid_results, result,
                 embed_log>>

\* search_articles, lines 372-374: semantic-only, first 50 articles
SemanticBranch ==
  /\ pc = "ready"
  /\ ~IsEmptyInput(query, articles)
  /\ ~IsSimpleQuery(query)
  /\ TakesSemantic
  /\ articles_to_search' = Refs(articles)
  /\ articles_to_process' = Process(Refs(articles), SemanticOnlyMaxArticles)
  /\ pc' = "query_embedding"
  /\ search_branch' = "semantic"
  /\ trace' = <<"semantic_search">>
  /\ UNCHANGED filter_call
  /\ UNCHANGED <<inputs, idx, query_embedding, scored_articles,
                 semantic_results, keyword_results, hybrid_results, result,
                 embed_log>>

\* search_articles, lines 383-391: no client, keyword scorer over everything
FallbackBranch ==
  /\ pc = "ready"
  /\ ~IsEmptyInput(query, articles)
  /\ ~IsSimpleQuery(query)
  /\ ~TakesHybrid
  /\ ~TakesSemantic
  /\ pc' = "done"
  /\ search_branch' = "keyword_fallback"
  /\ trace' = <<"simple_keyword_search">>
  /\ result' = SearchResult(query, FallbackResults(query, Refs(articles)),
                             "keyword_fallback")
  /\ articles' = WriteBack(articles,
                            simple_keyword_search(query, Refs(articles)))
  /\ UNCHANGED filter_call
  /\ UNCHANGED <<settings, articles_to_search, articles_to_process, idx,
                 query_embedding, scored_articles, semantic_results,
                 keyword_results, hybrid_results, embed_log>>

\* the hybrid branch giving up on an empty filtered list and answering as
\* the no-client fallback does
HybridReturn_escalating(q, filtered) ==
  IF filtered = <<>>
  THEN SearchResult(q, FallbackResults(q, Refs(articles)), "keyword_fallback")
  ELSE SearchResult(q, filtered, "hybrid")

\* search_articles, lines 366-371: what the hybrid branch returns
HybridReturn(q, filtered) == SearchResult(q, filtered, "hybrid")

\* the rest of the request once semantic_search has its scored_articles:
\* its sort and return, then (hybrid) the keyword scorer, the merge and its
\* sort, then the relevance filter and the return of search_articles
Complete(scored) ==
  \E sem \in {SortDesc(scored)} :
    IF search_branch = "hybrid"
    THEN \E kw \in {simple_keyword_search(query, articles_to_search)} :
         \E order \in IterationOrders(Links(sem) \cup Links(kw)) :
         \E merged \in {hybrid_merge(order, sem, kw, articles_to_search)} :
         \E filtered \in {filter_by_relevance_threshold(merged,
                            SEARCH_RELEVANCE_DISPLAY_THRESHOLD,
                            DefaultMaxResults)} :
           /\ semantic_results' = sem
           /\ keyword_results' = kw
           /\ hybrid_results' = merged
           /\ result' = HybridReturn(query, filtered)
           /\ articles' = WriteBack(articles, sem \o kw \o merged \o filtered)
           /\ trace' = trace \o <<"simple_keyword_search", "combine",
                                  "filter_by_relevance_threshold">>
    ELSE \E filtered \in {filter_by_relevance_threshold(sem,
                            SEARCH_RELEVANCE_DISPLAY_THRESHOLD,
                            DefaultMaxResults)} :
           /\ semantic_results' = sem
           /\ result' = SearchResult(query, filtered, "semantic")
           /\ articles' = WriteBack(articles, sem \o filtered)
           /\ trace' = trace \o <<"filter_by_relevance_threshold">>
           /\ UNCHANGED <<keyword_results, hybrid_results>>

\* semantic_search, lines 109-111: the provider is asked for the query's
\* embedding and answers with one of `outcomes`; None makes semantic_search
\* return [] at once
QueryEmbeddingOn(outcomes) ==
  /\ pc = "query_embedding"
  /\ \E outcome \in outcomes :
       LET r == get_embedding(client, outcome) IN
       /\ embed_log' = Append(embed_log, ProviderCall(0, outcome))
       /\ IF r.raised
          THEN /\ pc' = "raised"
               /\ UNCHANGED <<articles, query_embedding, scored_articles,
                              semantic_results, keyword_results,
                              hybrid_results, result, trace>>
          ELSE IF r.value.kind = "None"
          THEN /\ pc' = "done"
               /\ Complete(<<>>)
               /\ UNCHANGED <<query_embedding, scored_articles>>
          ELSE /\ pc' = "article_embedding"
               /\ query_embedding' = r.value
               /\ UNCHANGED <<articles, scored_articles, semantic_results,
                              keyword_results, hybrid_results, result, trace>>
  /\ UNCHANGED filter_call
  /\ UNCHANGED <<settings, search_branch, articles_to_search,
                 articles_to_process, idx>>

\* the loop asking again for a candidate whose embedding failed
NextIdx_retry(i, article_embedding) ==
  IF article_embedding.kind = "None" THEN i ELSE i + 1

\* `for idx, article in enumerate(articles_to_process):` the position of
\* the candidate after this one, whatever its embedding was
NextIdx(i, article_embedding) == i + 1

\* semantic_search, lines 120-139: one iteration of the loop, the provider
\* answering with one of `outcomes`; after the last one the request runs
\* to its return
ArticleEmbeddingOn(outcomes) ==
  /\ pc = "article_embedding"
  /\ idx <= Len(articles_to_process)
  /\ \E outcome \in outcomes :
       \E r \in {get_embedding(client, outcome)} :
       \E scored \in {SemanticStep(scored_articles, articles_to_process[idx],
                                  query_embedding, r.value)} :
       /\ embed_log' = Append(embed_log, ProviderCall(idx, outcome))
       /\ IF r.raised
          THEN /\ pc' = "raised"
               /\ UNCHANGED <<articles, idx, scored_articles,
                              semantic_results, keyword_results,
                              hybrid_results, result, trace>>
          ELSE /\ scored_articles' = scored
               /\ idx' = NextIdx(idx, r.value)
               /\ IF NextIdx(idx, r.value) > Len(articles_to_process)
                  THEN /\ pc' = "done"
                       /\ Complete(scored)
                  ELSE /\ pc' = "article_embedding"
                       /\ articles' = WriteBack(articles, scored)
                       /\ UNCHANGED <<semantic_results, keyword_results,
                                      hybrid_results, result, trace>>
  /\ UNCHANGED filter_call
  /\ UNCHANGED <<settings, search_branch, articles_to_search,
                 articles_to_process, query_embedding>>

\* the provider answering the query with any of its outcomes
QueryEmbedding == QueryEmbeddingOn(QueryOutcomes)

\* the provider answering a candidate with any of its outcomes
ArticleEmbedding == ArticleEmbeddingOn(ArticleOutcomes)

Next ==
  \/ ReturnNone
  \/ KeywordBranch
  \/ HybridBranch
  \/ SemanticBranch
  \/ FallbackBranch
  \/ QueryEmbedding
  \/ ArticleEmbedding

Spec == Init /\ [][Next]_vars

\* ------------------------------- the requests that reach the provider
\* queries of more than three words: one every article of the pool matches,
\* one no article matches, and one only the title "GPT-4 launches" matches
ProviderQueries == {T_Phrase, Q_None, Q_Launch}

\* every list of at most MaxPop different articles among the pool's first
\* four (two sharing a link, one with an empty link), in any order
ProviderPopulations ==
  UNION {{[i \in 1..n |-> Pool[f[i]]] :
            f \in {g \in [1..n -> 1..(Len(Pool) - 1)] :
                     \A i, j \in 1..n : g[i] = g[j] => i = j}} :
         n \in 1..MaxPop}

\* a complex query about to be searched with the provider available
InitProvider ==
  /\ query \in ProviderQueries
  /\ articles \in ProviderPopulations
  /\ client = TRUE
  /\ use_hybrid \in BOOLEAN
  /\ pc = "ready"
  /\ search_branch = "none"
  /\ articles_to_search = <<>>
  /\ articles_to_process = <<>>
  /\ idx = 1
  /\ query_embedding = NoneValue
  /\ scored_articles = <<>>
  /\ semantic_results = <<>>
  /\ keyword_results = <<>>
  /\ hybrid_results = <<>>
  /\ result = NoneValue
  /\ trace = <<>>
  /\ embed_log = <<>>
  /\ filter_call = NoFilterCall

\* search_articles in its hybrid and semantic-only branches
NextProvider ==
  \/ HybridBranch
  \/ SemanticBranch
  \/ QueryEmbedding
  \/ ArticleEmbedding

SpecProvider == InitProvider /\ [][NextProvider]_vars

\* ------------------------------------------ the relevance filter alone
\* relevance scores of the lists given to the filter, in hundredths
FilterScores == {0, 4000, 7500, 7650, 10000, 10390}

FilterMethods == {"keyword", "semantic", "hybrid"}

FilterThresholds == {0, SEARCH_RELEVANCE_DISPLAY_THRESHOLD, 100}

FilterCaps == {2, DefaultMaxResults}

\* result lists as the scorers return them: entries of one method, in
\* descending relevance_score
SortedResults ==
  UNION {{[i \in 1..n |-> [link |-> ToString(i), relevance_score |-> f[i],
                           search_method |-> m]] :
            f \in {g \in [1..n -> FilterScores] :
                     \A i, j \in 1..n : i < j => g[i] >= g[j]},
            m \in FilterMethods} :
         n \in 0..MaxList}

\* the variables of search_articles
pipeline == <<query, articles, client, use_hybrid, pc, search_branch,
              articles_to_search, articles_to_process, idx, query_embedding,
              scored_articles, semantic_results, keyword_results,
              hybrid_results, result, trace, embed_log>>

\* filter_by_relevance_threshold about to be called on a sorted list; no
\* search is running
InitFilter ==
  /\ query = <<>>
  /\ articles = <<>>
  /\ client = FALSE
  /\ use_hybrid = FALSE
  /\ pc = "ready"
  /\ search_branch = "none"
  /\ articles_to_search = <<>>
  /\ articles_to_process = <<>>
  /\ idx = 1
  /\ query_embedding = NoneValue
  /\ scored_articles = <<>>
  /\ semantic_results = <<>>
  /\ keyword_results = <<>>
  /\ hybrid_results = <<>>
  /\ result = NoneValue
  /\ trace = <<>>
  /\ embed_log = <<>>
  /\ \E results \in SortedResults :
     \E threshold_percent \in FilterThresholds :
     \E max_results \in FilterCaps :
       filter_call = [NoFilterCall EXCEPT
                        !.stage = "called",
                        !.results = results,
                        !.threshold_percent = threshold_percent,
                        !.max_results = max_results]

\* filter_by_relevance_threshold(results, threshold_percent, max_results)
FilterCall ==
  /\ filter_call.stage = "called"
  /\ filter_call' =
       [filter_call EXCEPT
          !.stage = "returned",
          !.returned = filter_by_relevance_threshold(filter_call.results,
                         filter_call.threshold_percent,
                         filter_call.max_results)]
  /\ UNCHANGED pipeline

\* the filter called on the list it returned, same threshold and cap
FilterAgain ==
  /\ filter_call.stage = "returned"
  /\ filter_call' =
       [filter_call EXCEPT
          !.stage = "returned_again",
          !.returned_again = filter_by_relevance_threshold(filter_call.returned,
                               filter_call.threshold_percent,
                               filter_call.max_results)]
  /\ UNCHANGED pipeline

NextFilter ==
  \/ FilterCall
  \/ FilterAgain

SpecFilter == InitFilter /\ [][NextFilter]_vars

\* result lists in whatever order a caller of the filter holds them:
\* entries of one method, not necessarily sorted
AnyResults ==
  UNION {{[i \in 1..n |-> [link |-> ToString(i), relevance_score |-> f[i],
                           search_method |-> m]] :
            f \in [1..n -> FilterScores], m \in FilterMethods} :
         n \in 0..MaxList}

\* filter_by_relevance_threshold about to be called on any list; no search
\* is running
InitFilterAny ==
  /\ query = <<>>
  /\ articles = <<>>
  /\ client = FALSE
  /\ use_hybrid = FALSE
  /\ pc = "ready"
  /\ search_branch = "none"
  /\ articles_to_search = <<>>
  /\ articles_to_process = <<>>
  /\ idx = 1
  /\ query_embedding = NoneValue
  /\ scored_articles = <<>>
  /\ semantic_results = <<>>
  /\ keyword_results = <<>>
  /\ hybrid_results = <<>>
  /\ result = NoneValue
  /\ trace = <<>>
  /\ embed_log = <<>>
  /\ \E results \in AnyResults :
     \E threshold_percent \in FilterThresholds :
     \E max_results \in FilterCaps :
       filter_call = [NoFilterCall EXCEPT
                        !.stage = "called",
                        !.results = results,
                        !.threshold_percent = threshold_percent,
                        !.max_results = max_results]

SpecFilterAny == InitFilterAny /\ [][NextFilter]_vars

\* ------------------------------- search_articles on large populations
\* the k-th day, as the number YYYYMMDD of its ISO date (28-day months)
DateOf(k) == 20240101 + 100 * ((k - 1) \div 28) + ((k - 1) % 28)

\* the orders the caller's list can be in: as fetch_all_feeds sorts it
\* (newest first), reversed, or flattened category by category as the
\* search endpoint does (two newest-first runs)
DateOrders == {"newest_first", "oldest_first", "by_category"}

\* the day article i of n was published on, under a date order
DayOf(i, n, order) ==
  LET half == (n + 1) \div 2 IN
  IF order = "oldest_first" THEN i
  ELSE IF order = "newest_first" THEN n - i + 1
  ELSE IF i <= half THEN n - 2 * (i - 1)
  ELSE n - 1 - 2 * (i - half - 1)

\* links all different, shared by neighbours two by two, or missing
LinkKinds == {"distinct", "paired", "missing"}

\* titles the query "GPT update for today" scores 65, 20 and 10
MatchingTitles == <<T_Phrase, T_GPTToday, T_Update>>

\* article i of a generated population of n: it matches the query from
\* position first_match on
BigArticle(i, n, first_match, order, links) ==
  LET title == IF i >= first_match THEN MatchingTitles[(i % 3) + 1]
               ELSE T_Markets
      base == [title |-> title,
               published_date |-> DateOf(DayOf(i, n, order))]
  IN IF links = "missing" THEN base
     ELSE Put(base, "link",
              IF links = "distinct" THEN ToString(i)
              ELSE ToString((i + 1) \div 2))

\* population sizes around the narrowing limits 20, 40 and 30 + 20
BigSizes == {1, 20, 21, 22, 40, 41} \cup ((MaxBig - 3)..MaxBig)

BigPopulations ==
  {[i \in 1..n |-> BigArticle(i, n, first_match, order, links)] :
     n \in BigSizes, first_match \in {1, 2, 21, MaxBig + 1},
     order \in DateOrders, links \in LinkKinds}

BigQueries == {<<>>, Q_GPT, T_Phrase}

\* a search about to start on a generated population
InitBig ==
  /\ query \in BigQueries
  /\ articles \in BigPopulations
  /\ client \in BOOLEAN
  /\ use_hybrid \in BOOLEAN
  /\ pc = "ready"
  /\ search_branch = "none"
  /\ articles_to_search = <<>>
  /\ articles_to_process = <<>>
  /\ idx = 1
  /\ query_embedding = NoneValue
  /\ scored_articles = <<>>
  /\ semantic_results = <<>>
  /\ keyword_results = <<>>
  /\ hybrid_results = <<>>
  /\ result = NoneValue
  /\ trace = <<>>
  /\ embed_log = <<>>
  /\ filter_call = NoFilterCall

\* search_articles up to its return or its first call of the provider
NextBig ==
  \/ ReturnNone
  \/ KeywordBranch
  \/ HybridBranch
  \/ SemanticBranch
  \/ FallbackBranch

SpecBig == InitBig /\ [][NextBig]_vars

\* ------------------- the provider calls of a search on a large population
\* population sizes around the limits 40 and 50 of the candidate lists
ChainSizes == {1, 40, 41, 50, 51, MaxBig}

\* generated populations, newest first, in which only the last two
\* articles match the query, or none does
ChainPopulations ==
  {[i \in 1..n |-> BigArticle(i, n, n + 1 - matching, "newest_first", links)] :
     n \in ChainSizes, matching \in {0, 2}, links \in {"distinct", "paired"}}

\* what the provider answers for the i-th candidate of a long run: anything
\* for the first, an error for every fifth, and a vector of similarity 0.5
\* for the others
ChainOutcomes(i) ==
  IF i = 1 THEN ArticleOutcomes
  ELSE IF i % 5 = 0 THEN {Error}
  ELSE {Vector(<<0, 1, 0, 0>>)}

\* a complex query about to be searched on a generated population, the
\* provider being available
InitChain ==
  /\ query = T_Phrase
  /\ articles \in ChainPopulations
  /\ client = TRUE
  /\ use_hybrid \in BOOLEAN
  /\ pc = "ready"
  /\ search_branch = "none"
  /\ articles_to_search = <<>>
  /\ articles_to_process = <<>>
  /\ idx = 1
  /\ query_embedding = NoneValue
  /\ scored_articles = <<>>
  /\ semantic_results = <<>>
  /\ keyword_results = <<>>
  /\ hybrid_results = <<>>
  /\ result = NoneValue
  /\ trace = <<>>
  /\ embed_log = <<>>
  /\ filter_call = NoFilterCall

\* the provider answering a candidate of a long run
ArticleEmbeddingChain == ArticleEmbeddingOn(ChainOutcomes(idx))

\* search_articles on a complex query, with every provider call it makes
NextChain ==
  \/ HybridBranch
  \/ SemanticBranch
  \/ QueryEmbedding
  \/ ArticleEmbeddingChain

SpecChain == InitChain /\ [][NextChain]_vars

\* =============================================================== claims
Returned == pc = "done"

SearchTypes == {"keyword", "keyword_fallback", "semantic", "hybrid", "none"}

IsComplexRequest ==
  /\ query # <<>>
  /\ articles # <<>>
  /\ WordCount(query) > SEARCH_SIMPLE_QUERY_THRESHOLD

\* the entries of a result list, as a set
Entries(s) == {s[i] : i \in 1..Len(s)}

\* C1: whatever the query, the candidates (fields missing or not) and the
\* provider's outcomes, search_articles never ends in an exception: a
\* request that has not returned is at its start or waiting for the provider
\* inside the loop's range, and what it returns carries query, search_type
\* (one of the five), total_results and articles.
C1_NeverRaises ==
  /\ pc \in {"ready", "query_embedding", "article_embedding", "done"}
  /\ pc = "article_embedding" => idx \in 1..Len(articles_to_process)
  /\ Returned =>
       /\ DOMAIN result = {"query", "search_type", "total_results", "articles"}
       /\ result.query = query
       /\ result.search_type \in SearchTypes
       /\ result.total_results \in Nat
       /\ DOMAIN result.articles = 1..Len(result.articles)

\* a candidate's embedding call failed, one of the candidates lacks optional
\* fields, and the request still returned articles
C1_Witness ==
  /\ Returned
  /\ \E i \in 1..Len(embed_log) :
       embed_log[i].failed /\ embed_log[i].target > 0
  /\ \E i \in 1..Len(articles) : "summary" \notin DOMAIN articles[i]
  /\ result.search_type = "hybrid"
  /\ result.total_results > 0

\* C2: a query of at most SEARCH_SIMPLE_QUERY_THRESHOLD words is answered
\* with search_type keyword or none, whatever client and the hybrid flag are.
C2_SimpleQueryKeywordOnly ==
  (Returned /\ Len(split(query)) <= 3) =>
    result.search_type \in {"keyword", "none"}

\* a three-word query answered by the keyword scorer although the provider
\* is available and hybrid mode is on
C2_Witness ==
  /\ Returned
  /\ Len(split(query)) = 3
  /\ client /\ use_hybrid
  /\ result.search_type = "keyword"
  /\ result.total_results > 0

\* C3: without a client, a complex query over a non-empty population returns
\* keyword_fallback at once, with every article of the full population that
\* the keyword scorer matches, unfiltered, and no provider call.
C3_FallbackWithoutClient ==
  (pc # "ready" /\ ~client /\ IsComplexRequest) =>
    /\ Returned
    /\ result.search_type = "keyword_fallback"
    /\ embed_log = <<>>
    /\ trace = <<"simple_keyword_search">>
    /\ result.articles = simple_keyword_search(query, articles)
    /\ result.total_results =
         Cardinality({i \in 1..Len(articles) :
                        KeywordScore(query, articles[i]) > 0})
    /\ \A i \in 1..Len(result.articles) :
         "relevance_percentage" \notin DOMAIN result.articles[i]

\* a fallback result holding an article the relevance filter would have
\* removed (its score is under 75% of the best one)
C3_Witness ==
  /\ Returned /\ ~client /\ IsComplexRequest
  /\ result.search_type = "keyword_fallback"
  /\ \E i, j \in 1..Len(result.articles) :
       result.articles[j].relevance_score * 100
         < SEARCH_RELEVANCE_DISPLAY_THRESHOLD * result.articles[i].relevance_score

\* C4: an empty query or an empty population returns none with no articles
\* at once: no keyword scoring, no provider call.
C4_EmptyInputNone ==
  (pc # "ready" /\ (query = <<>> \/ articles = <<>>)) =>
    /\ Returned
    /\ result = [query |-> query, total_results |-> 0, articles |-> <<>>,
                 search_type |-> "none"]
    /\ trace = <<>>
    /\ embed_log = <<>>

\* the empty query over a non-empty population, with the provider available
C4_Witness ==
  /\ Returned
  /\ query = <<>> /\ articles # <<>> /\ client
  /\ result.search_type = "none"

\* C5: a complex request with the provider available runs, with hybrid mode
\* on, narrowing, then the combiner, then the relevance filter, and reports
\* hybrid; with hybrid mode off, the semantic scorer, then the relevance
\* filter, and reports semantic.
C5_BranchOrder ==
  (Returned /\ IsComplexRequest /\ client) =>
    IF use_hybrid
    THEN /\ trace = <<"simple_keyword_search", "narrow", "hybrid_search",
                      "semantic_search", "simple_keyword_search", "combine",
                      "filter_by_relevance_threshold">>
         /\ result.search_type = "hybrid"
         /\ Links(hybrid_results) \subseteq Links(articles_to_search)
         /\ \A i \in 1..Len(result.articles) :
              /\ result.articles[i].search_method = "hybrid"
              /\ "relevance_percentage" \in DOMAIN result.articles[i]
              /\ \E e \in Entries(hybrid_results) :
                   /\ LinkOf(e) = LinkOf(result.articles[i])
                   /\ e.relevance_score = result.articles[i].relevance_score
    ELSE /\ trace = <<"semantic_search", "filter_by_relevance_threshold">>
         /\ result.search_type = "semantic"
         /\ hybrid_results = <<>>
         /\ \A i \in 1..Len(result.articles) :
              /\ result.articles[i].search_method = "semantic"
              /\ "relevance_percentage" \in DOMAIN result.articles[i]
              /\ \E e \in Entries(semantic_results) :
                   /\ LinkOf(e) = LinkOf(result.articles[i])
                   /\ e.relevance_score = result.articles[i].relevance_score

\* with hybrid mode off, a semantic result that passed the filter
C5_Witness ==
  /\ Returned /\ IsComplexRequest /\ client /\ ~use_hybrid
  /\ result.search_type = "semantic"
  /\ result.total_results > 0
  /\ Len(semantic_results) > result.total_results

\* the scores a scorer's result list gives a link; 0 when it has no entry
ScoresGiven(results, link) ==
  IF link \in Links(results)
  THEN {results[i].relevance_score :
          i \in {j \in 1..Len(results) : LinkOf(results[j]) = link}}
  ELSE {0}

\* C6: every entry of hybrid_search's output has relevance_score
\* 0.7 * semantic_score + 0.3 * keyword_score, the two being the scores the
\* semantic and the keyword scorer gave its link (0 when none), is marked
\* hybrid and keeps both sub-scores.
C6_HybridWeights ==
  (Returned /\ search_branch = "hybrid") =>
    \A i \in 1..Len(hybrid_results) :
      LET e == hybrid_results[i] IN
      /\ e.search_method = "hybrid"
      /\ {"semantic_score", "keyword_score"} \subseteq DOMAIN e
      /\ e.semantic_score \in ScoresGiven(semantic_results, LinkOf(e))
      /\ e.keyword_score \in ScoresGiven(keyword_results, LinkOf(e))
      /\ 10 * e.relevance_score = 7 * e.semantic_score + 3 * e.keyword_score

\* an output with an entry scored by both methods and an entry scored by
\* the keyword scorer alone
C6_Witness ==
  /\ Returned /\ search_branch = "hybrid"
  /\ \E e \in Entries(hybrid_results) :
       e.semantic_score > 0 /\ e.keyword_score > 0
  /\ \E e \in Entries(hybrid_results) :
       e.semantic_score = 0 /\ e.keyword_score > 0

\* the links either scorer produced whose weighted sum is positive
ScoredLinks ==
  {link \in Links(semantic_results) \cup Links(keyword_results) :
     \E s \in ScoresGiven(semantic_results, link) :
     \E k \in ScoresGiven(keyword_results, link) : 7 * s + 3 * k > 0}

ScoredLinkless ==
  {i \in 1..Len(articles) :
     LinkOf(articles[i]) = "" /\ KeywordScore(query, articles[i]) > 0}

\* the entries of hybrid_search's output without a link
LinklessEntries ==
  {i \in 1..Len(hybrid_results) : LinkOf(hybrid_results[i]) = ""}

Annotations ==
  {"relevance_score", "search_method", "semantic_score", "keyword_score",
   "relevance_percentage"}

\* an entry without what the scorers added
Unannotated(e) == [k \in DOMAIN e \ Annotations |-> e[k]]

\* the keyword result list of the request, when the keyword scorer made it
KeywordOutput ==
  IF search_branch = "hybrid" THEN keyword_results ELSE result.articles

\* a working list without the marks of whose dicts its records are
Deref(s) == [i \in 1..Len(s) |-> Plain(s[i])]

KeywordInput ==
  IF search_branch = "hybrid" THEN Deref(articles_to_search) ELSE articles

\* the articles of the pool, and the keyword score of each for each query
PoolArticles == {Pool[i] : i \in 1..Len(Pool)}

KeywordScores ==
  [q \in Queries |-> [a \in PoolArticles |-> KeywordScore(q, a)]]

\* C9: the keyword result list has no entry of score 0: an article is in it
\* exactly when its additive score is strictly positive.
C9_KeywordPositiveOnly ==
  (Returned /\ search_branch \in {"keyword", "keyword_fallback", "hybrid"}) =>
    /\ \A i \in 1..Len(KeywordOutput) : KeywordOutput[i].relevance_score > 0
    /\ \A i \in 1..Len(KeywordInput) :
         LET a == KeywordInput[i]
             score == KeywordScores[query][Unannotated(a)]
         IN (score > 0) <=>
              (\E e \in Entries(KeywordOutput) :
                 /\ e.relevance_score = score
                 /\ e.search_method = "keyword"
                 /\ \A k \in DOMAIN a \ {"relevance_score", "search_method"} :
                      k \in DOMAIN e /\ e[k] = a[k])
    /\ Len(KeywordOutput) =
         Cardinality({i \in 1..Len(KeywordInput) :
            KeywordScores[query][Unannotated(KeywordInput[i])] > 0})

\* a keyword search that kept one article and left out another
C9_Witness ==
  /\ Returned /\ search_branch = "keyword"
  /\ result.total_results > 0
  /\ result.total_results < Len(articles)

GPTScenario ==
  /\ query = Q_GPT
  /\ Len(articles) = 3
  /\ articles[1].title = T_GPT4
  /\ articles[2].title = T_Claude
  /\ articles[3].title = T_Weather

\* C10 as stated: in the GPT scenario the first article scores 10.
C10_ScenarioScoreTen ==
  (Returned /\ GPTScenario) =>
    /\ result.search_type = "keyword"
    /\ Len(result.articles) = 1
    /\ result.articles[1].title = T_GPT4
    /\ result.articles[1].relevance_score = 10 * Scale

\* C10 amended: query "GPT" over the three articles runs the keyword scorer;
\* the first article scores 35 (phrase in title 25 + keyword in title 10),
\* the others 0, and the result is exactly ["GPT-4 launches"].
C10_ScenarioScoreThirtyFive ==
  (Returned /\ GPTScenario) =>
    /\ result.search_type = "keyword"
    /\ Len(result.articles) = 1
    /\ result.total_results = 1
    /\ result.articles[1].title = T_GPT4
    /\ result.articles[1].relevance_score = 35 * Scale
    /\ KeywordScore(query, articles[2]) = 0
    /\ KeywordScore(query, articles[3]) = 0

\* the GPT scenario has been answered
C10_Witness ==
  /\ Returned /\ GPTScenario
  /\ result.total_results = 1

\* where the article of an entry stands in a candidate list
PositionIn(input, e) ==
  CHOOSE i \in 1..Len(input) : Unannotated(input[i]) = Unannotated(e)

\* C11: the keyword result list is in non-increasing relevance_score, and
\* articles of equal score keep the relative order of the candidate list.
C11_KeywordSortedStable ==
  (Returned /\ search_branch \in {"keyword", "keyword_fallback", "hybrid"}) =>
    \A i, j \in 1..Len(KeywordOutput) :
      i < j =>
        /\ KeywordOutput[i].relevance_score >= KeywordOutput[j].relevance_score
        /\ KeywordOutput[i].relevance_score = KeywordOutput[j].relevance_score
             => PositionIn(KeywordInput, KeywordOutput[i])
                  < PositionIn(KeywordInput, KeywordOutput[j])

\* a keyword result with two articles of equal score, and with an article
\* that the sort moved in front of an earlier candidate
C11_Witness ==
  /\ Returned /\ search_branch = "keyword"
  /\ \E i, j \in 1..Len(result.articles) :
       /\ i < j
       /\ result.articles[i].relevance_score = result.articles[j].relevance_score
  /\ \E i, j \in 1..Len(result.articles) :
       /\ i < j
       /\ PositionIn(articles, result.articles[i])
            > PositionIn(articles, result.articles[j])

\* C15: in every result, total_results is the length of the returned list
\* and the returned articles are in non-increasing relevance_score.
C15_CountAndOrder ==
  Returned =>
    /\ result.total_results = Len(result.articles)
    /\ \A i, j \in 1..Len(result.articles) :
         i < j => result.articles[i].relevance_score
                    >= result.articles[j].relevance_score

\* a hybrid result of two articles with different scores, the better one
\* standing later in the candidate list
C15_Witness ==
  /\ Returned /\ result.search_type = "hybrid"
  /\ result.total_results = 2
  /\ result.articles[1].relevance_score > result.articles[2].relevance_score
  /\ PositionIn(articles, result.articles[1])
       > PositionIn(articles, result.articles[2])

\* C16 as stated: hybrid results are ordered by combined score, and two
\* articles of equal combined score stand in the order of the caller's list,
\* whatever order the link set is iterated in.
C16_TiesInInputOrder ==
  (Returned /\ search_branch = "hybrid") =>
    \A i, j \in 1..Len(result.articles) :
      i < j =>
        /\ result.articles[i].relevance_score
             >= result.articles[j].relevance_score
        /\ result.articles[i].relevance_score
             = result.articles[j].relevance_score
             => PositionIn(articles, result.articles[i])
                  < PositionIn(articles, result.articles[j])

\* C17 as stated: every relevance_percentage the relevance filter attached
\* lies in 0..100, whichever method scored the entry.
C17_PercentageInRange ==
  Returned =>
    \A i \in 1..Len(result.articles) :
      "relevance_percentage" \in DOMAIN result.articles[i]
        => result.articles[i].relevance_percentage \in 0..100

\* the request is past its branch decision and the query's embedding failed
QueryEmbeddingFailed == embed_log # <<>> /\ embed_log[1].failed

\* C18: the branch is decided once, at the start, and never changes; a
\* request never goes back to its start; a request that entered the hybrid
\* branch returns search_type hybrid whatever the provider did, and when the
\* query's embedding failed every merged entry has semantic score 0 and
\* relevance 0.3 * its keyword score.
C18_OneShot ==
  [][/\ search_branch' # search_branch
          => (pc = "ready" /\ search_branch = "none")
     /\ pc # "ready" => pc' # "ready"
     /\ pc = "done" => UNCHANGED vars
     /\ (search_branch = "hybrid" /\ pc' = "done") =>
          /\ result'.search_type = "hybrid"
          /\ QueryEmbeddingFailed' =>
               /\ semantic_results' = <<>>
               /\ Len(embed_log') = 1
               /\ \A i \in 1..Len(hybrid_results') :
                    /\ hybrid_results'[i].semantic_score = 0
                    /\ 10 * hybrid_results'[i].relevance_score
                         = 3 * hybrid_results'[i].keyword_score
  ]_vars

\* a hybrid request whose query embedding failed: the keyword scorer alone
\* scored articles, none reached the display threshold, and the empty result
\* is still reported as hybrid
C18_Witness ==
  /\ Returned /\ search_branch = "hybrid"
  /\ QueryEmbeddingFailed
  /\ hybrid_results # <<>>
  /\ result.search_type = "hybrid"
  /\ result.total_results = 0

\* the text occurs in the field, compared character by character at some
\* offset
Occurs(needle, hay) ==
  \E off \in 0..(Len(hay) - Len(needle)) :
    \A k \in 1..Len(needle) : LowerChar(hay[off + k]) = LowerChar(needle[k])

\* the places of a query where a token starts and where it ends
TokenStarts(q) ==
  {i \in 1..Len(q) : ~IsSpace(q[i]) /\ (i = 1 \/ IsSpace(q[i - 1]))}

TokenEnd(q, i) ==
  CHOOSE j \in i..Len(q) :
    /\ \A k \in i..j : ~IsSpace(q[k])
    /\ j = Len(q) \/ IsSpace(q[j + 1])

\* how many tokens of the query occur in the field, each occurrence of a
\* token in the query counted
TokensIn(q, field) ==
  Cardinality({i \in TokenStarts(q) :
                 Occurs(SubSeq(q, i, TokenEnd(q, i)), field)})

\* the reference sum of the keyword scorer, in hundredths
ReferenceScore(q, a) ==
  LET title == Get(a, "title", <<>>)
      summary == Get(a, "summary", <<>>)
      source == Get(a, "source", <<>>)
      category == Get(a, "category", <<>>)
  IN Scale *
       ( (IF Occurs(q, title) THEN 25
          ELSE IF Occurs(q, summary) THEN 15 ELSE 0)
       + 10 * TokensIn(q, title) + 5 * TokensIn(q, summary)
       + 2 * TokensIn(q, source) + 8 * TokensIn(q, category) )

\* the reference sum of every pool article for every query
ReferenceScores ==
  [q \in Queries |-> [a \in PoolArticles |-> ReferenceScore(q, a)]]

\* C19: the keyword scorer gives every article the reference sum: 25 for the
\* whole query in the title, else 15 for it in the summary, plus per query
\* token 10 in title, 5 in summary, 2 in source, 8 in category, all compared
\* without regard to case. Every entry of the keyword result list carries
\* the reference sum of its article, and an article is left out exactly
\* when its reference sum is 0.
C19_KeywordReferenceSum ==
  (Returned /\ search_branch \in {"keyword", "keyword_fallback", "hybrid"}) =>
    /\ \A i \in 1..Len(KeywordOutput) :
         KeywordOutput[i].relevance_score
           = ReferenceScores[query][Unannotated(KeywordOutput[i])]
    /\ \A i \in 1..Len(KeywordInput) :
         ReferenceScores[query][Unannotated(KeywordInput[i])] > 0
           <=> \E e \in Entries(KeywordOutput) :
                 Unannotated(e) = Unannotated(KeywordInput[i])

\* a query with a repeated token: the article matching it in all four fields
\* scores twice 10 + 5 + 2 + 8; and a query found whole in a title and in
\* the summary scores the 25 only
C19_Witness ==
  /\ Returned /\ search_branch = "keyword"
  /\ query = Q_Twice
  /\ \E e \in Entries(result.articles) :
       /\ e.relevance_score = 2 * (10 + 5 + 2 + 8) * Scale
       /\ e.title = T_Phrase /\ e.summary = T_Phrase

\* the result lists the request has built so far
ProducedLists ==
  scored_articles \o semantic_results \o keyword_results \o hybrid_results
    \o (IF Returned THEN result.articles ELSE <<>>)

\* C14: no step of search_articles, in any branch, changes the caller's
\* list or a record of it: the list keeps its elements, their order and
\* their fields and values; every record the scorers, the combiner and the
\* relevance filter annotate is a copy, and the records still shared with
\* the caller carry no annotation.
C14_CallerListUntouched ==
  [][/\ articles' = articles
     /\ \A i \in 1..Len(ProducedLists') :
          CallerRef \notin DOMAIN ProducedLists'[i]
     /\ \A i \in 1..Len(articles_to_search') :
          LET a == articles_to_search'[i] IN
          CallerRef \in DOMAIN a =>
            /\ Plain(a) = articles[a[CallerRef]]
            /\ DOMAIN a \cap Annotations = {}
  ]_vars

\* a hybrid request that narrowed to the caller's own records, scored them
\* with both scorers and returned an article the relevance filter wrote its
\* percentage into
C14_Witness ==
  /\ Returned /\ search_branch = "hybrid"
  /\ \E i \in 1..Len(articles_to_search) :
       CallerRef \in DOMAIN articles_to_search[i]
  /\ semantic_results # <<>> /\ keyword_results # <<>>
  /\ \E e \in Entries(result.articles) :
       /\ "relevance_percentage" \in DOMAIN e
       /\ \E i \in 1..Len(articles) : Unannotated(e) = articles[i]

\* C13: filtering the list the relevance filter returned, with the same
\* threshold and cap, returns that list again: the same articles, in the
\* same order, with the same relevance_percentage, for keyword, semantic and
\* hybrid lists sorted descending.
C13_FilterIdempotent ==
  filter_call.stage = "returned_again" =>
    filter_call.returned_again = filter_call.returned

\* a keyword list of three of which the threshold removed one, the second
\* kept at under 100 percent of the best, filtered twice
C13_Witness ==
  /\ filter_call.stage = "returned_again"
  /\ Len(filter_call.results) = 3
  /\ filter_call.results[1].search_method = "keyword"
  /\ filter_call.max_results > 2
  /\ Len(filter_call.returned) = 2
  /\ filter_call.returned[1].relevance_percentage = 100
  /\ filter_call.returned[2].relevance_percentage < 100

\* the entries of the narrowed list that are keyword matches (scored
\* copies), and those that are the caller's own records
NarrowedMatches ==
  {i \in 1..Len(articles_to_search) :
     "relevance_score" \in DOMAIN articles_to_search[i]}

NarrowedOthers ==
  {i \in 1..Len(articles_to_search) :
     CallerRef \in DOMAIN articles_to_search[i]}

\* the keyword scorer matches no article of the population
NoKeywordMatch ==
  \A i \in 1..Len(articles) : KeywordScore(query, articles[i]) = 0

\* C12: in the hybrid branch the list handed to hybrid_search has at most
\* 50 articles whatever the size of the population: at most 30 keyword
\* matches and at most 20 others, and at most 40 when nothing matches.
C12_NarrowedAtMostFifty ==
  search_branch = "hybrid" =>
    /\ Len(articles_to_search) <= 50
    /\ Cardinality(NarrowedMatches) <= 30
    /\ Cardinality(NarrowedOthers) <= 20 \/ NoKeywordMatch
    /\ NarrowedMatches \cup NarrowedOthers = 1..Len(articles_to_search)
    /\ NoKeywordMatch =>
         /\ Len(articles_to_search) <= 40
         /\ NarrowedMatches = {}

\* a population of more than 50 articles narrowed to exactly 50: thirty
\* keyword matches and the first twenty of the list
C12_Witness ==
  /\ search_branch = "hybrid"
  /\ Len(articles) > 50
  /\ Len(articles_to_search) = 50
  /\ Cardinality(NarrowedMatches) = 30
  /\ Cardinality(NarrowedOthers) = 20

\* the position, in the caller's list, of the article of a narrowed entry
PositionOf(e) ==
  IF CallerRef \in DOMAIN e THEN e[CallerRef] ELSE PositionIn(articles, e)

\* the k highest-scoring keyword matches of the population, equal scores in
\* list order
TopKeywordMatches(k) ==
  LET score == [i \in 1..Len(articles) |-> KeywordScore(query, articles[i])]
  IN {i \in 1..Len(articles) :
        /\ score[i] > 0
        /\ Cardinality({j \in 1..Len(articles) :
                          \/ score[j] > score[i]
                          \/ score[j] = score[i] /\ j < i}) < k}

\* the k articles of the population with the most recent published_date
MostRecent(k) ==
  {i \in 1..Len(articles) :
     Cardinality({j \in 1..Len(articles) :
                    articles[j].published_date > articles[i].published_date})
       < k}

\* the narrowed list is one article per link out of the set of positions
Deduplicated(positions) ==
  /\ \A i \in 1..Len(articles_to_search) :
       PositionOf(articles_to_search[i]) \in positions
  /\ {NarrowKey(articles_to_search[i]) : i \in 1..Len(articles_to_search)}
       = {NarrowKey(articles[i]) : i \in positions}
  /\ \A i, j \in 1..Len(articles_to_search) :
       NarrowKey(articles_to_search[i]) = NarrowKey(articles_to_search[j])
         => i = j

\* C20 as stated: whatever order the population is in, the narrowed list is
\* the union, one article per link, of the 30 best keyword matches and the
\* 20 most recently published articles of the population, or the 40 most
\* recently published ones when nothing matches.
C20_NarrowedByRecency ==
  search_branch = "hybrid" =>
    IF NoKeywordMatch
    THEN /\ {PositionOf(articles_to_search[i]) :
               i \in 1..Len(articles_to_search)} = MostRecent(40)
         /\ Len(articles_to_search) = Cardinality(MostRecent(40))
    ELSE Deduplicated(TopKeywordMatches(30) \cup MostRecent(20))

\* C22: a query of at most three words over a non-empty population never
\* reaches the embedding provider, even with the provider available and
\* hybrid mode on: the request returns in one step, the keyword scorer is
\* the only stage that ran, no provider call was made and nothing of the
\* semantic scorer's state was touched.
C22_SimpleQueryNoProviderCall ==
  (pc # "ready" /\ query # <<>> /\ articles # <<>>
     /\ Len(split(query)) <= 3) =>
    /\ Returned
    /\ embed_log = <<>>
    /\ trace = <<"simple_keyword_search">>
    /\ query_embedding = NoneValue
    /\ articles_to_process = <<>>
    /\ semantic_results = <<>> /\ hybrid_results = <<>>

\* a two-word query answered over several articles with the provider
\* available and hybrid mode on, and the provider never called
C22_Witness ==
  /\ Returned
  /\ client /\ use_hybrid
  /\ Len(split(query)) = 2
  /\ Len(articles) > 1
  /\ result.total_results > 0
  /\ embed_log = <<>>

\* the i-th processed candidate as the caller gave it
Candidate(i) == Unannotated(Plain(articles_to_process[i]))

\* the processed candidates whose embedding call failed
FailedCandidates ==
  {embed_log[k].target : k \in {j \in 1..Len(embed_log) :
                                  embed_log[j].failed /\ embed_log[j].target > 0}}

\* C28: within one request the provider is asked once for the query, first,
\* and then once for each processed candidate, in order: the k-th call is
\* for text k - 1, so no text is asked for twice and a failed call is never
\* repeated; a candidate whose call failed is in the scored list at no later
\* moment of the loop, nor in the semantic results of the request.
C28_OneCallPerText ==
  /\ \A k \in 1..Len(embed_log) : embed_log[k].target = k - 1
  /\ Len(embed_log) <= 1 + Len(articles_to_process)
  /\ \A t \in FailedCandidates :
       /\ \A i \in 1..Len(scored_articles) :
            Unannotated(scored_articles[i]) # Candidate(t)
       /\ \A i \in 1..Len(semantic_results) :
            Unannotated(semantic_results[i]) # Candidate(t)

\* the first of three candidates failed, the later ones were embedded and
\* kept, and the request returned after four provider calls
C28_Witness ==
  /\ Returned
  /\ Len(articles_to_process) = 3
  /\ Len(embed_log) = 4
  /\ FailedCandidates = {1}
  /\ Len(semantic_results) = 2

\* the remapped cosine similarity, in ten-thousandths, of the provider's
\* vectors to the query vector (1, 0, 0, 0), worked out by hand:
\* (1 + 1) / 2, (2 / 5 + 1) / 2 and (0 + 1) / 2
ReferenceSimilarity(outcome) ==
  IF outcome = Vector(<<1, 0, 0, 0>>) THEN 10000
  ELSE IF outcome = Vector(<<2, 4, 2, 1>>) THEN 7000
  ELSE IF outcome = Vector(<<0, 1, 0, 0>>) THEN 5000
  ELSE 0

\* the semantic scorer got the query's embedding and went through all its
\* candidates
SemanticScorerRan ==
  /\ Returned
  /\ search_branch \in {"hybrid", "semantic"}
  /\ ~QueryEmbeddingFailed

\* the provider call made for the t-th processed candidate
CallFor(t) == embed_log[t + 1]

\* the processed candidates embedded with a similarity of at least 0.70
Qualifying ==
  {t \in 1..Len(articles_to_process) :
     /\ ~CallFor(t).failed
     /\ ReferenceSimilarity(CallFor(t).outcome) >= 7000}

\* C23: when embedding calls fail for some candidates, at whatever positions
\* and however many, the semantic results still hold every processed
\* candidate whose own call succeeded with similarity at least 0.70, once
\* each, and nothing else: only the failed candidates (and those under the
\* threshold) are left out.
C23_FailureExcludesOnlyThatCandidate ==
  SemanticScorerRan =>
    \A kept \in {{Unannotated(semantic_results[i]) :
                    i \in 1..Len(semantic_results)}} :
    \A qualifying \in {Qualifying} :
      /\ \A t \in qualifying : Candidate(t) \in kept
      /\ \A t \in FailedCandidates : Candidate(t) \notin kept
      /\ Len(semantic_results) = Cardinality(qualifying)

\* the call for the middle one of three candidates failed, and the
\* candidates before and after it are both in the semantic results
C23_Witness ==
  /\ SemanticScorerRan
  /\ Len(articles_to_process) = 3
  /\ FailedCandidates = {2}
  /\ Qualifying = {1, 3}
  /\ Len(semantic_results) = 2

\* the candidate a semantic result entry was made from
SourceOf(e) ==
  CHOOSE t \in 1..Len(articles_to_process) : Candidate(t) = Unannotated(e)

\* C24: the semantic scorer keeps a processed candidate exactly when its
\* embedding succeeded and its remapped similarity is at least 0.70; a kept
\* entry has relevance_score similarity * 100, between 70 and 100, and
\* search_method semantic; the list is in non-increasing relevance_score;
\* without the query's embedding the list is empty.
C24_SemanticKeepRule ==
  /\ (Returned /\ QueryEmbeddingFailed) => semantic_results = <<>>
  /\ SemanticScorerRan =>
       \A candidates \in {[t \in 1..Len(articles_to_process) |-> Candidate(t)]} :
       \A kept \in {[i \in 1..Len(semantic_results) |->
                       Unannotated(semantic_results[i])]} :
         /\ \A t \in 1..Len(candidates) :
              (\E i \in 1..Len(kept) : kept[i] = candidates[t])
                <=> (/\ ~CallFor(t).failed
                     /\ ReferenceSimilarity(CallFor(t).outcome) >= 7000)
         /\ \A i \in 1..Len(kept) :
              /\ semantic_results[i].search_method = "semantic"
              /\ \E t \in 1..Len(candidates) :
                   /\ candidates[t] = kept[i]
                   /\ semantic_results[i].relevance_score =
                        ReferenceSimilarity(CallFor(t).outcome)
              /\ semantic_results[i].relevance_score \in 7000..10000
         /\ \A i \in 1..(Len(kept) - 1) :
              semantic_results[i].relevance_score
                >= semantic_results[i + 1].relevance_score

\* a candidate of similarity exactly 0.70 kept with relevance_score 70,
\* behind one of similarity 1.0 that was processed after it, and a candidate
\* of similarity 0.5 left out
C24_Witness ==
  /\ SemanticScorerRan
  /\ Len(semantic_results) = 2
  /\ semantic_results[1].relevance_score = 10000
  /\ semantic_results[2].relevance_score = 7000
  /\ SourceOf(semantic_results[2]) < SourceOf(semantic_results[1])
  /\ \E t \in 1..Len(articles_to_process) :
       ~CallFor(t).failed /\ ReferenceSimilarity(CallFor(t).outcome) = 5000

\* C29: with the weights 0.7 and 0.3 and the thresholds 0.70 and 75, every
\* article of a returned hybrid result has keyword_score above 0: a merged
\* entry the keyword scorer did not match has relevance_score
\* 0.7 * semantic_score, at most 70, and is not in the returned articles.
C29_HybridNeedsKeywordMatch ==
  (Returned /\ search_branch = "hybrid") =>
    /\ \A i \in 1..Len(result.articles) :
         result.articles[i].keyword_score > 0
    /\ \A i \in 1..Len(hybrid_results) :
         hybrid_results[i].keyword_score = 0 =>
           /\ 10 * hybrid_results[i].relevance_score
                = 7 * hybrid_results[i].semantic_score
           /\ hybrid_results[i].relevance_score <= 70 * Scale
           /\ \A j \in 1..Len(result.articles) :
                LinkOf(result.articles[j]) # LinkOf(hybrid_results[i])

\* a merged entry with similarity 1.0 and no keyword match reached 70 and
\* was removed, while an entry with a keyword match was returned
C29_Witness ==
  /\ Returned /\ search_branch = "hybrid"
  /\ result.total_results > 0
  /\ \E i \in 1..Len(hybrid_results) :
       /\ hybrid_results[i].keyword_score = 0
       /\ hybrid_results[i].semantic_score = 100 * Scale
       /\ hybrid_results[i].relevance_score = 70 * Scale

\* C30: the list hybrid_search returns has at most one entry per link, and
\* so has the list the request returns, also when the list given to
\* hybrid_search holds several articles with one link.
C30_OneEntryPerLink ==
  (Returned /\ search_branch = "hybrid") =>
    /\ \A i, j \in 1..Len(hybrid_results) :
         i # j => LinkOf(hybrid_results[i]) # LinkOf(hybrid_results[j])
    /\ \A i, j \in 1..Len(result.articles) :
         i # j => LinkOf(result.articles[i]) # LinkOf(result.articles[j])

\* no keyword match, so hybrid_search got the first articles as they are,
\* two of them with the same link; the semantic scorer kept both and the
\* merged list has that link once
C30_Witness ==
  /\ Returned /\ search_branch = "hybrid"
  /\ \E i, j \in 1..Len(articles_to_search) :
       /\ i # j
       /\ LinkOf(articles_to_search[i]) = LinkOf(articles_to_search[j])
       /\ LinkOf(articles_to_search[i]) # ""
  /\ \E i, j \in 1..Len(semantic_results) :
       i # j /\ LinkOf(semantic_results[i]) = LinkOf(semantic_results[j])
  /\ Len(hybrid_results) = 1

\* the list the request gave to the relevance filter
FilterInput ==
  IF search_branch = "hybrid" THEN hybrid_results ELSE semantic_results

\* the entries of the filter's input whose relevance_score is at least the
\* display threshold, in the input's order
PassingAbsolute ==
  SelectSeq(FilterInput, LAMBDA e : e.relevance_score >= 75 * Scale)

\* the k-th smallest member of a set of positions
KthOf(S, k) == CHOOSE i \in S : Cardinality({j \in S : j < i}) = k - 1

\* the whole number nearest to a score given in hundredths, the even one
\* when two are equally near
NearestPoints(score) ==
  CHOOSE p \in {score \div 100, score \div 100 + 1} :
    \/ 2 * (score - 100 * p) < 100 /\ 2 * (100 * p - score) < 100
    \/ 2 * (score - 100 * p) = 100 /\ p % 2 = 0
    \/ 2 * (100 * p - score) = 100 /\ p % 2 = 0

\* C25: the filter given a semantic or hybrid list returns the entries whose
\* own relevance_score is at least 75, in the list's order, up to six, each
\* with relevance_percentage the rounded relevance_score; nothing is
\* measured against the best score of the batch. So every article a
\* semantic or hybrid request returns has relevance_score at least 75.
C25_AbsoluteThreshold ==
  (Returned /\ search_branch \in {"hybrid", "semantic"}) =>
    \A passing \in {PassingAbsolute} :
      /\ Len(result.articles) = IF Len(passing) <= 6 THEN Len(passing) ELSE 6
      /\ \A k \in 1..Len(result.articles) :
           /\ result.articles[k] =
                Put(passing[k], "relevance_percentage",
                    NearestPoints(passing[k].relevance_score))
           /\ result.articles[k].relevance_score >= 75 * Scale

\* a batch whose best score is 76: it is returned with relevance_percentage
\* 76, not 100, and the entry scored 70 of the same batch is left out
C25_Witness ==
  /\ Returned /\ search_branch = "hybrid"
  /\ Len(hybrid_results) = 2
  /\ hybrid_results[1].relevance_score = 76 * Scale
  /\ hybrid_results[2].relevance_score = 70 * Scale
  /\ Len(result.articles) = 1
  /\ result.articles[1].relevance_percentage = 76

\* the filter was called by itself and has returned
FilterReturned == filter_call.stage \in {"returned", "returned_again"}

\* the method the filter reads from the first entry of its input
FilterMethod ==
  IF filter_call.results = <<>> THEN "keyword"
  ELSE filter_call.results[1].search_method

\* the best relevance_score of the filter's input
BatchMaximum ==
  CHOOSE m \in {filter_call.results[i].relevance_score :
                  i \in 1..Len(filter_call.results)} :
    \A i \in 1..Len(filter_call.results) :
      filter_call.results[i].relevance_score <= m

\* the whole number nearest to n / d, the even one when two are equally near
NearestRatio(n, d) ==
  CHOOSE p \in {n \div d, n \div d + 1} :
    \/ 2 * (n - p * d) < d /\ 2 * (p * d - n) < d
    \/ 2 * (n - p * d) = d /\ p % 2 = 0
    \/ 2 * (p * d - n) = d /\ p % 2 = 0

\* the positions of a keyword input whose score is at least the threshold
\* percentage of the batch maximum
PassingRelative ==
  {i \in 1..Len(filter_call.results) :
     100 * filter_call.results[i].relevance_score
       >= filter_call.threshold_percent * BatchMaximum}

PassingPositions ==
  IF FilterMethod \in {"semantic", "hybrid"}
  THEN {i \in 1..Len(filter_call.results) :
          filter_call.results[i].relevance_score
            >= filter_call.threshold_percent * Scale}
  ELSE IF filter_call.results = <<>> \/ BatchMaximum = 0 THEN {}
  ELSE PassingRelative

\* a returned entry without the percentage the filter added
WithoutPercentage(e) == [k \in DOMAIN e \ {"relevance_percentage"} |-> e[k]]

\* C27: what the filter returns is the first max_results of the articles
\* that pass its threshold test, in the order they have in the input,
\* sorted or not: its length never exceeds max_results, and the k-th
\* returned article is the k-th passing article of the input.
C27_FirstPassingInInputOrder ==
  FilterReturned =>
    /\ Len(filter_call.returned) <= filter_call.max_results
    /\ Len(filter_call.returned) =
         IF Cardinality(PassingPositions) <= filter_call.max_results
         THEN Cardinality(PassingPositions) ELSE filter_call.max_results
    /\ \A k \in 1..Len(filter_call.returned) :
         WithoutPercentage(filter_call.returned[k]) =
           filter_call.results[KthOf(PassingPositions, k)]

\* three passing articles in ascending score and a cap of two: the first
\* two are returned as they stood, and the best one is cut
C27_Witness ==
  /\ FilterReturned
  /\ filter_call.max_results = 2
  /\ Len(filter_call.results) = 3
  /\ Cardinality(PassingPositions) = 3
  /\ filter_call.results[1].relevance_score < filter_call.results[2].relevance_score
  /\ filter_call.results[2].relevance_score < filter_call.results[3].relevance_score
  /\ Len(filter_call.returned) = 2
  /\ filter_call.returned[1].link = "1" /\ filter_call.returned[2].link = "2"

\* the provider calls made for candidates, and for the query
CandidateCalls == {k \in 1..Len(embed_log) : embed_log[k].target > 0}

QueryCalls == {k \in 1..Len(embed_log) : embed_log[k].target = 0}

\* C21: whatever the size of the population, one request asks the provider
\* for at most 50 candidate embeddings and for the query's embedding at most
\* once, in the hybrid branch as in the semantic-only branch: the list of
\* candidates the semantic scorer goes through has at most 50 entries and
\* the provider is never asked for a candidate outside it.
C21_AtMostFiftyCandidateCalls ==
  /\ Cardinality(CandidateCalls) <= 50
  /\ Cardinality(QueryCalls) <= 1
  /\ Len(articles_to_process) <= 50
  /\ \A k \in CandidateCalls :
       embed_log[k].target \in 1..Len(articles_to_process)

\* a semantic-only request over more than 50 articles that returned after
\* exactly 50 candidate calls and one query call
C21_Witness ==
  /\ Returned /\ search_branch = "semantic"
  /\ Len(articles) > 50
  /\ Cardinality(CandidateCalls) = 50
  /\ Cardinality(QueryCalls) = 1

\* a hybrid request over more than 50 articles, none matching a keyword,
\* that returned after 40 candidate calls
C21_HybridReached ==
  /\ Returned /\ search_branch = "hybrid"
  /\ Len(articles) > 50
  /\ Cardinality(CandidateCalls) = 40

====
